---- MODULE Spec2Model ----
(***************************************************************************)
(* Dashboard.py: the e-commerce dashboard script.  Streamlit executes the  *)
(* script top to bottom once per filter change; load_data() is memoized.   *)
(* Tables are sequences of records (a DataFrame's rows in order), columns  *)
(* keep their pandas names.  Money is in integer cents, means are exact    *)
(* fractions, timestamps are integers.                                     *)
(***************************************************************************)
EXTENDS Integers, Sequences, FiniteSets, TLC

VARIABLES loaded, selected_states, orders, customer_orders,
          orders_items_product, full_data, total_customers, total_orders,
          total_revenue, product_summary, top_products, payment_summary,
          orders_filtered, delivery_counts, on_time, late, insight_text,
          customers_geo, reviews_summary, pc, hist

vars == <<loaded, selected_states, orders, customer_orders,
          orders_items_product, full_data, total_customers, total_orders,
          total_revenue, product_summary, top_products, payment_summary,
          orders_filtered, delivery_counts, on_time, late, insight_text,
          customers_geo, reviews_summary, pc, hist>>

\* ------------------------------------------------------------------ bounds
MaxOrders == 3
MaxDate == 3
MaxPayments == 2
MaxReviews == 2
MaxGeo == 2
MaxItems == 12

\* ------------------------------------------------------- program constants
\* head(10) of the revenue ranking
TopN == 10
\* pandas' missing value (NaN / NaT) in a numeric or timestamp column
NaN == -1
\* pandas' missing value in a text column
NaNStr == "NaN"
\* a script variable the run has not assigned yet
Unbound == <<>>

\* the customer states, the payment types and the geolocation cities of the
\* inputs, each in ascending (alphabetical) order: groupby sorts its keys
States == <<"RJ", "SP">>
PaymentTypes == <<"boleto", "credit_card">>
Cities == <<"rio", "sao">>

\* --------------------------------------------------------- pandas helpers
Range(s) == {s[i] : i \in DOMAIN s}

ColSet(t, col) == {t[i][col] : i \in DOMAIN t}

RECURSIVE Flatten(_)
Flatten(ss) == IF Len(ss) = 0 THEN <<>> ELSE Head(ss) \o Flatten(Tail(ss))

RECURSIVE SumSeq(_)
SumSeq(s) == IF Len(s) = 0 THEN 0 ELSE Head(s) + SumSeq(Tail(s))

\* Series.sum(): missing values are skipped
SumCol(t, col) ==
  SumSeq([i \in DOMAIN t |-> IF t[i][col] = NaN THEN 0 ELSE t[i][col]])

\* Series.nunique(): distinct non-missing values
NUnique(t, col) == Cardinality(ColSet(t, col) \ {NaN})

Min(S) == CHOOSE x \in S : \A y \in S : x <= y
Max(S) == CHOOSE x \in S : \A y \in S : x >= y

RECURSIVE SortAsc(_)
SortAsc(S) == IF S = {} THEN <<>> ELSE <<Min(S)>> \o SortAsc(S \ {Min(S)})

RECURSIVE GCD(_, _)
GCD(a, b) == IF b = 0 THEN a ELSE GCD(b, a % b)

\* an exact fraction n/d, d > 0, in lowest terms
Rat(n, d) == LET g == GCD(n, d) IN [num |-> n \div g, den |-> d \div g]
RatMul(k, r) == Rat(k * r.num, r.den)
RatLe(a, b) == a.num * b.den <= b.num * a.den

\* Series.mean() of a non-empty column
Mean(t, col) == Rat(SumCol(t, col), Len(t))

\* a comparison with a missing timestamp is False
Lt(a, b) == a # NaN /\ b # NaN /\ a < b

\* pd.merge(left, right, on=key, how="inner"): the left rows in order, each
\* with its matching right rows in order
MergeInner(left, right, key) ==
  Flatten([i \in DOMAIN left |->
    LET m == SelectSeq(right, LAMBDA r : r[key] = left[i][key])
    IN  [j \in DOMAIN m |-> left[i] @@ m[j]]])

\* pd.merge(left, right, left_on=lkey, right_on=rkey, how="left"): a left row
\* without a match is kept with the right columns missing
MergeLeft(left, right, lkey, rkey, missing) ==
  Flatten([i \in DOMAIN left |->
    LET m == SelectSeq(right, LAMBDA r : r[rkey] = left[i][lkey])
    IN  IF Len(m) = 0 THEN <<left[i] @@ missing>>
        ELSE [j \in DOMAIN m |-> left[i] @@ m[j]]])

\* df[df[col].isin(values)]
IsIn(t, col, values) == SelectSeq(t, LAMBDA r : r[col] \in values)

\* DataFrame.drop_duplicates(subset=col): the first row of each value is kept
RECURSIVE DropDuplicatesFrom(_, _, _)
DropDuplicatesFrom(t, col, seen) ==
  IF Len(t) = 0 THEN <<>>
  ELSE IF Head(t)[col] \in seen THEN DropDuplicatesFrom(Tail(t), col, seen)
  ELSE <<Head(t)>> \o DropDuplicatesFrom(Tail(t), col, seen \cup {Head(t)[col]})

DropDuplicates(t, col) == DropDuplicatesFrom(t, col, {})

\* head(n)
HeadN(t, n) == SubSeq(t, 1, IF Len(t) < n THEN Len(t) ELSE n)

\* Series.median(): the middle value, or the mean of the two middle values
\* (the inputs' coordinates are even, so that mean is an integer)
RECURSIVE SortedVals(_)
SortedVals(s) ==
  IF Len(s) = 0 THEN <<>>
  ELSE LET m == Min(Range(s))
           k == CHOOSE i \in DOMAIN s : s[i] = m
       IN  <<m>> \o SortedVals(SubSeq(s, 1, k - 1) \o SubSeq(s, k + 1, Len(s)))

Median(s) ==
  LET v == SortedVals(s)
      n == Len(v)
  IN  IF n % 2 = 1 THEN v[(n + 1) \div 2]
      ELSE (v[n \div 2] + v[n \div 2 + 1]) \div 2

\* round(100 * a / b, 2) in hundredths of a percent, ties to even
RoundPct(a, b) ==
  LET x == a * 10000
      q == x \div b
      r == x % b
  IN  IF 2 * r < b THEN q
      ELSE IF 2 * r > b THEN q + 1
      ELSE IF q % 2 = 0 THEN q ELSE q + 1

\* sort_values(col, ascending=False) on an exact fraction column; rows of
\* equal value are kept in their original order (pandas' default sort does
\* not promise an order among ties; no property below reads it)
RECURSIVE InsertDesc(_, _, _)
InsertDesc(row, sorted, col) ==
  IF Len(sorted) = 0 THEN <<row>>
  ELSE IF RatLe(Head(sorted)[col], row[col]) THEN <<row>> \o sorted
  ELSE <<Head(sorted)>> \o InsertDesc(row, Tail(sorted), col)

RECURSIVE SortDesc(_, _)
SortDesc(t, col) ==
  IF Len(t) = 0 THEN <<>>
  ELSE InsertDesc(Head(t), SortDesc(Tail(t), col), col)

\* ------------------------------------------------------- the script's steps
\* line 48: orders[orders["order_status"] == "delivered"].copy()
DeliveredOrders(t) == SelectSeq(t, LAMBDA o : o.order_status = "delivered")

\* lines 51-54: np.where(delivered < estimated, "On Time", "Late")
StatusKetepatan(o) ==
  IF Lt(o.order_delivered_customer_date, o.order_estimated_delivery_date)
  THEN "On Time" ELSE "Late"

WithStatus(t) ==
  [i \in DOMAIN t |-> t[i] @@ [status_ketepatan |-> StatusKetepatan(t[i])]]

\* line 57
CustomerOrders(customers, ords) == MergeInner(customers, ords, "customer_id")

\* line 60
ItemsProduct(order_items, products) ==
  MergeInner(order_items, products, "product_id")

\* line 63
OrdersItemsProduct(ords, items_product) ==
  MergeInner(ords, items_product, "order_id")

\* lines 66-67
MissingReview == [review_score |-> NaN, review_comment_message |-> NaNStr]

PaymentsReviews(payments, reviews) ==
  LET m == MergeLeft(payments, reviews, "order_id", "order_id", MissingReview)
  IN  [i \in DOMAIN m |-> m[i] @@
        [indikator_komentar |->
           IF m[i].review_comment_message # NaNStr THEN 1 ELSE 0]]

\* line 70
MissingPaymentReview ==
  [payment_type |-> NaNStr, payment_value |-> NaN, review_score |-> NaN,
   review_comment_message |-> NaNStr, indikator_komentar |-> NaN]

FullData(cust_orders, payments_reviews) ==
  MergeLeft(cust_orders, payments_reviews, "order_id", "order_id",
            MissingPaymentReview)

\* lines 74-76: the state filter, passed on by customer_id membership
FilterCustomerOrders(t, sel) == IsIn(t, "customer_state", sel)
FilterByCustomer(t, cust_orders) ==
  IsIn(t, "customer_id", ColSet(cust_orders, "customer_id"))

\* lines 87-92: groupby("product_id"), count of order_item_id, mean of price
ProductSummary(t) ==
  LET keys == SortAsc(ColSet(t, "product_id"))
  IN  [k \in DOMAIN keys |->
        LET g == SelectSeq(t, LAMBDA r : r.product_id = keys[k])
            q == Len(g)
            p == Mean(g, "price")
        IN  [product_id |-> keys[k], quantity_sold |-> q, price |-> p,
             total_revenue |-> RatMul(q, p)]]

\* the ranking without head(10)
TopProductsUncut(summary) == SortDesc(summary, "total_revenue")

\* line 93
TopProducts(summary) == HeadN(SortDesc(summary, "total_revenue"), TopN)

\* lines 110-114: groupby("payment_type"), missing keys dropped
PaymentSummary(t) ==
  LET keys == SelectSeq(PaymentTypes,
                        LAMBDA p : p \in ColSet(t, "payment_type"))
  IN  [k \in DOMAIN keys |->
        LET g == SelectSeq(t, LAMBDA r : r.payment_type = keys[k])
        IN  [payment_type |-> keys[k],
             total_orders |-> NUnique(g, "order_id"),
             min_payment |-> Min(ColSet(g, "payment_value")),
             max_payment |-> Max(ColSet(g, "payment_value")),
             avg_payment |-> Mean(g, "payment_value")]]

\* the delivery chart reading every delivered order, whatever the selection
OrdersFilteredUnrestricted(ords, cust_orders, sel) == ords

\* lines 130-132
OrdersFiltered(ords, cust_orders, sel) ==
  IF sel # {} THEN FilterByCustomer(ords, cust_orders) ELSE ords

\* lines 134-135: value_counts(): one row per label present, most frequent
\* first
DeliveryCounts(t) ==
  LET seen == DropDuplicates(t, "status_ketepatan")
      rows == [i \in DOMAIN seen |->
                [status |-> seen[i].status_ketepatan,
                 count |-> Len(SelectSeq(t, LAMBDA r :
                     r.status_ketepatan = seen[i].status_ketepatan))]]
  IN  IF Len(rows) = 2 /\ rows[2].count > rows[1].count
      THEN <<rows[2], rows[1]>> ELSE rows

\* lines 150-151: delivery_counts.loc[status == label, "count"].values
CountValues(counts, label) ==
  LET m == SelectSeq(counts, LAMBDA r : r.status = label)
  IN  [i \in DOMAIN m |-> m[i].count]

\* lines 158-160: groupby(prefix, city, state), median of lat and of lng
GeolocationSilver(geo) ==
  LET zips == SortAsc(ColSet(geo, "geolocation_zip_code_prefix"))
      keys == Flatten([z \in DOMAIN zips |-> Flatten([c \in DOMAIN Cities |->
                [s \in DOMAIN States |-> <<zips[z], Cities[c], States[s]>>]])])
      Group(k) == SelectSeq(geo, LAMBDA r :
                    /\ r.geolocation_zip_code_prefix = k[1]
                    /\ r.geolocation_city = k[2]
                    /\ r.geolocation_state = k[3])
      present == SelectSeq(keys, LAMBDA k : Len(Group(k)) > 0)
  IN  [i \in DOMAIN present |->
        LET g == Group(present[i])
        IN  [geolocation_zip_code_prefix |-> present[i][1],
             geolocation_city |-> present[i][2],
             geolocation_state |-> present[i][3],
             geolocation_lat |->
               Median([j \in DOMAIN g |-> g[j].geolocation_lat]),
             geolocation_lng |->
               Median([j \in DOMAIN g |-> g[j].geolocation_lng])]]

\* lines 162-168
MissingGeo ==
  [geolocation_zip_code_prefix |-> NaN, geolocation_city |-> NaNStr,
   geolocation_state |-> NaNStr, geolocation_lat |-> NaN,
   geolocation_lng |-> NaN]

\* the geo join without drop_duplicates
CustomersGeoNoDedup(cust_orders, silver) ==
  MergeLeft(cust_orders, silver, "customer_zip_code_prefix",
            "geolocation_zip_code_prefix", MissingGeo)

CustomersGeo(cust_orders, silver) ==
  DropDuplicates(
    MergeLeft(cust_orders, silver, "customer_zip_code_prefix",
              "geolocation_zip_code_prefix", MissingGeo),
    "order_id")

\* lines 187-189: groupby("review_score"), count of order_id per score
ReviewsSummary(t) ==
  LET keys == SortAsc(ColSet(t, "review_score") \ {NaN})
  IN  [k \in DOMAIN keys |->
        [review_score |-> keys[k],
         count |-> Len(SelectSeq(t, LAMBDA r : r.review_score = keys[k]))]]

\* ------------------------------------------------------------- the inputs
Order(i, c, st, d, e) ==
  [order_id |-> i, customer_id |-> c, order_status |-> st,
   order_delivered_customer_date |-> d, order_estimated_delivery_date |-> e]
Customer(c, st, z) ==
  [customer_id |-> c, customer_state |-> st, customer_zip_code_prefix |-> z]
Item(o, k, p, v) ==
  [order_id |-> o, order_item_id |-> k, product_id |-> p, price |-> v]
Product(p) == [product_id |-> p]
Payment(o, t, v) == [order_id |-> o, payment_type |-> t, payment_value |-> v]
Review(o, s) ==
  [order_id |-> o, review_score |-> s,
   review_comment_message |-> IF s < 3 THEN "bad" ELSE NaNStr]
Geo(z, c, st, lat, lng) ==
  [geolocation_zip_code_prefix |-> z, geolocation_city |-> c,
   geolocation_state |-> st, geolocation_lat |-> lat, geolocation_lng |-> lng]

SeqsUpTo(S, n) == UNION {[1..k -> S] : k \in 0..n}

Dates == 1..MaxDate
EstimatedDate == (MaxDate + 1) \div 2
OrderIds == 1..MaxOrders
StateOf(c) == States[((c - 1) % Len(States)) + 1]

\* the tables a specification does not vary: one customer, item, payment,
\* review and geolocation sample per order; order 1 is early, order 2 is not
BaseOrders ==
  [i \in OrderIds |->
     Order(i, i, "delivered", ((i - 1) % MaxDate) + 1, EstimatedDate)]
BaseCustomers == [c \in OrderIds |-> Customer(c, StateOf(c), c)]
BaseItems == [i \in OrderIds |-> Item(i, 1, i, 100 * i)]
BaseProducts == [p \in 1..(MaxItems + 1) |-> Product(p)]
BasePayments == [i \in OrderIds |-> Payment(i, "credit_card", 100 * i)]
BaseReviews == [i \in OrderIds |-> Review(i, 5)]
BaseGeo == [z \in OrderIds |-> Geo(z, "sao", "SP", 2 * z, 2 * z)]

BaseTables ==
  [orders |-> BaseOrders, order_items |-> BaseItems,
   products |-> BaseProducts, payments |-> BasePayments,
   reviews |-> BaseReviews, customers |-> BaseCustomers,
   geolocation |-> BaseGeo]

\* ---------------------------------------------------------------- the state
\* what a finished run computed (a run that raised leaves the rest unbound)
Outputs ==
  [ended |-> pc, customer_orders |-> customer_orders,
   orders_items_product |-> orders_items_product, full_data |-> full_data,
   total_customers |-> total_customers, total_orders |-> total_orders,
   total_revenue |-> total_revenue, top_products |-> top_products,
   payment_summary |-> payment_summary, delivery_counts |-> delivery_counts,
   on_time |-> on_time, late |-> late, insight_text |-> insight_text,
   customers_geo |-> customers_geo, reviews_summary |-> reviews_summary]

\* lines 39-45 of a fresh execution of the script: load_data() hands out the
\* memoized tables, the multiselect holds `sel`, nothing else is bound yet
Start(tables, sel, h) ==
  /\ loaded = tables
  /\ selected_states = sel
  /\ orders = tables.orders
  /\ customer_orders = Unbound
  /\ orders_items_product = Unbound
  /\ full_data = Unbound
  /\ total_customers = NaN
  /\ total_orders = NaN
  /\ total_revenue = NaN
  /\ product_summary = Unbound
  /\ top_products = Unbound
  /\ payment_summary = Unbound
  /\ orders_filtered = Unbound
  /\ delivery_counts = Unbound
  /\ on_time = NaN
  /\ late = NaN
  /\ insight_text = Unbound
  /\ customers_geo = Unbound
  /\ reviews_summary = Unbound
  /\ pc = "clean"
  /\ hist = h

Untracked == [tracked |-> FALSE, runs |-> {}]
Tracked == [tracked |-> TRUE, runs |-> {}]

\* orders of every status and delivery timestamp (missing, early, on the
\* estimate, late)
InitOrders ==
  \E n \in 0..MaxOrders :
    \E st \in [1..n -> {"delivered", "canceled"}] :
      \E d \in [1..n -> Dates \cup {NaN}] :
        Start([BaseTables EXCEPT !.orders =
                 [i \in 1..n |-> Order(i, i, st[i], d[i], EstimatedDate)]],
              {}, Untracked)

\* payment and review tables of every shape: several payments or reviews on
\* one order, none on another
PaymentRows ==
  {Payment(o, t, v) : o \in 1..2, t \in Range(PaymentTypes), v \in {100, 200}}
ReviewRows == {Review(o, s) : o \in 1..2, s \in {1, 5}}

InitPay ==
  \E pay \in SeqsUpTo(PaymentRows, MaxPayments) :
    \E rev \in SeqsUpTo(ReviewRows, MaxReviews) :
      Start([BaseTables EXCEPT !.payments = pay, !.reviews = rev],
            {}, Untracked)

\* orders of either status whose customer is any customer of the table or
\* is missing from it; customer 1 may be listed twice, under two states;
\* order i has i % 3 items and i % 3 payments
FilterItems ==
  Flatten([i \in OrderIds |-> [k \in 1..(i % 3) |-> Item(i, k, k, 100 * k)]])
FilterPayments ==
  Flatten([i \in OrderIds |->
             [k \in 1..(i % 3) |-> Payment(i, PaymentTypes[k], 100 * k)]])

InitFilter ==
  \E n \in 0..MaxOrders :
    \E cu \in [1..n -> 1..(MaxOrders + 1)] :
      \E st \in [1..n -> {"delivered", "canceled"}] :
        \E twice \in BOOLEAN :
          Start([BaseTables EXCEPT
                   !.orders = [i \in 1..n |->
                      Order(i, cu[i], st[i], ((i - 1) % MaxDate) + 1,
                            EstimatedDate)],
                   !.customers = BaseCustomers \o
                      (IF twice THEN <<Customer(1, StateOf(2), 1)>>
                       ELSE <<>>),
                   !.order_items = FilterItems,
                   !.payments = FilterPayments],
                {}, Untracked)

\* geolocation samples of every shape: a prefix under several cities, a
\* prefix without a sample; customers 1 and 2 live under prefix 1 or 2, a
\* later customer c under prefix 1 + c % 2, and customer 1 may be listed a
\* second time under the other prefix
GeoRows ==
  {Geo(z, c, "SP", lat, 6 - lat) :
     z \in 1..2, c \in Range(Cities), lat \in {2, 4}}

InitGeo ==
  \E geo \in SeqsUpTo(GeoRows, MaxGeo) :
    \E zip \in [1..2 -> 1..2] :
      \E twice \in BOOLEAN :
        Start([BaseTables EXCEPT
                 !.geolocation = geo,
                 !.customers =
                    [c \in OrderIds |->
                       Customer(c, StateOf(c),
                                IF c \in DOMAIN zip THEN zip[c]
                                ELSE 1 + (c % 2))]
                    \o (IF twice THEN <<Customer(1, StateOf(1), 3 - zip[1])>>
                        ELSE <<>>)],
              {}, Untracked)

\* order items of up to MaxItems rows: item k belongs to order
\* 1 + k % MaxOrders; its product and its price follow one of a few patterns
\* (all products distinct, one more product than the ranking shows, products
\* in pairs, three products; prices rising, falling, alternating, equal,
\* scattered); product 1 may be missing from the catalogue
ProductOf(pat, k) ==
  CASE pat = 1 -> k
    [] pat = 2 -> 1 + ((k - 1) % (TopN + 1))
    [] pat = 3 -> (k + 1) \div 2
    [] OTHER   -> 1 + (k % 3)
PriceOf(pat, k, n) ==
  CASE pat = 1 -> 100 * k
    [] pat = 2 -> 100 * (n + 1 - k)
    [] pat = 3 -> 100 * (1 + (k % 2))
    [] pat = 4 -> 500
    [] OTHER   -> 10 * (1 + ((k * k) % 7))

InitRank ==
  \E n \in 0..MaxItems :
    \E pp \in 1..4 :
      \E vp \in 1..5 :
        \E full \in BOOLEAN :
          Start([BaseTables EXCEPT
                   !.order_items = [k \in 1..n |->
                      Item(1 + (k % MaxOrders), k, ProductOf(pp, k),
                           PriceOf(vp, k, n))],
                   !.products = IF full THEN BaseProducts
                                ELSE Tail(BaseProducts)],
                {}, Untracked)

\* orders of either status, customers of every state; the finished runs are
\* recorded
InitRuns ==
  \E st \in [OrderIds -> {"delivered", "canceled"}] :
    \E cs \in [OrderIds -> Range(States)] :
      Start([BaseTables EXCEPT
               !.orders = [i \in OrderIds |->
                  Order(i, i, st[i], ((i - 1) % MaxDate) + 1, EstimatedDate)],
               !.customers = [c \in OrderIds |-> Customer(c, cs[c], c)]],
            {}, Tracked)


\* --------------------------------------------------------------- the actions
\* the cleaning done in place on the memoized table
CleanInPlace ==
  /\ pc = "clean"
  /\ orders' = WithStatus(DeliveredOrders(orders))
  /\ loaded' = [loaded EXCEPT !.orders = DeliveredOrders(loaded.orders)]
  /\ pc' = "merge"
  /\ UNCHANGED <<selected_states, customer_orders,
                 orders_items_product, full_data, total_customers,
                 total_orders, total_revenue, product_summary, top_products,
                 payment_summary, orders_filtered, delivery_counts, on_time,
                 late, insight_text, customers_geo, reviews_summary, hist>>

\* lines 47-54: Data Cleaning
Clean ==
  /\ pc = "clean"
  /\ orders' = WithStatus(DeliveredOrders(orders))
  /\ pc' = "merge"
  /\ UNCHANGED <<loaded, selected_states, customer_orders,
                 orders_items_product, full_data, total_customers,
                 total_orders, total_revenue, product_summary, top_products,
                 payment_summary, orders_filtered, delivery_counts, on_time,
                 late, insight_text, customers_geo, reviews_summary, hist>>

\* lines 56-70: Merge
Merge ==
  /\ pc = "merge"
  /\ customer_orders' = CustomerOrders(loaded.customers, orders)
  /\ orders_items_product' =
       OrdersItemsProduct(orders,
                          ItemsProduct(loaded.order_items, loaded.products))
  /\ full_data' = FullData(customer_orders',
                           PaymentsReviews(loaded.payments, loaded.reviews))
  /\ pc' = "filter"
  /\ UNCHANGED <<loaded, selected_states, orders, total_customers,
                 total_orders, total_revenue, product_summary, top_products,
                 payment_summary, orders_filtered, delivery_counts, on_time,
                 late, insight_text, customers_geo, reviews_summary, hist>>

\* lines 72-76: Apply Filter
ApplyFilter ==
  /\ pc = "filter"
  /\ IF selected_states # {}
     THEN /\ customer_orders' =
               FilterCustomerOrders(customer_orders, selected_states)
          /\ orders_items_product' =
               FilterByCustomer(orders_items_product, customer_orders')
          /\ full_data' = FilterByCustomer(full_data, customer_orders')
     ELSE UNCHANGED <<customer_orders, orders_items_product, full_data>>
  /\ pc' = "overview"
  /\ UNCHANGED <<loaded, selected_states, orders, total_customers,
                 total_orders, total_revenue, product_summary, top_products,
                 payment_summary, orders_filtered, delivery_counts, on_time,
                 late, insight_text, customers_geo, reviews_summary, hist>>

\* lines 78-83: Overview (payment values are whole cents, which
\* round(., 2) leaves as they are)
Overview ==
  /\ pc = "overview"
  /\ total_customers' = NUnique(customer_orders, "customer_id")
  /\ total_orders' = NUnique(customer_orders, "order_id")
  /\ total_revenue' = SumCol(full_data, "payment_value")
  /\ pc' = "product"
  /\ UNCHANGED <<loaded, selected_states, orders, customer_orders,
                 orders_items_product, full_data, product_summary,
                 top_products, payment_summary, orders_filtered,
                 delivery_counts, on_time, late, insight_text, customers_geo,
                 reviews_summary, hist>>

\* lines 85-93: Product Analysis
ProductAnalysis ==
  /\ pc = "product"
  /\ product_summary' = ProductSummary(orders_items_product)
  /\ top_products' = TopProducts(product_summary')
  /\ pc' = "payment"
  /\ UNCHANGED <<loaded, selected_states, orders, customer_orders,
                 orders_items_product, full_data, total_customers,
                 total_orders, total_revenue, payment_summary,
                 orders_filtered, delivery_counts, on_time, late,
                 insight_text, customers_geo, reviews_summary, hist>>

\* lines 108-114: Payment Analysis
PaymentAnalysis ==
  /\ pc = "payment"
  /\ payment_summary' = PaymentSummary(full_data)
  /\ pc' = "delivery"
  /\ UNCHANGED <<loaded, selected_states, orders, customer_orders,
                 orders_items_product, full_data, total_customers,
                 total_orders, total_revenue, product_summary, top_products,
                 orders_filtered, delivery_counts, on_time, late,
                 insight_text, customers_geo, reviews_summary, hist>>

\* lines 129-135: Delivery Status Analysis
DeliveryStatus ==
  /\ pc = "delivery"
  /\ orders_filtered' = OrdersFiltered(orders, customer_orders, selected_states)
  /\ delivery_counts' = DeliveryCounts(orders_filtered')
  /\ pc' = "insight"
  /\ UNCHANGED <<loaded, selected_states, orders, customer_orders,
                 orders_items_product, full_data, total_customers,
                 total_orders, total_revenue, product_summary, top_products,
                 payment_summary, on_time, late, insight_text, customers_geo,
                 reviews_summary, hist>>

\* lines 149-152: Insight.  `.values[0]` of a label that delivery_counts does
\* not hold raises IndexError, which ends the run
DeliveryInsights ==
  /\ pc = "insight"
  /\ LET a == CountValues(delivery_counts, "On Time")
         b == CountValues(delivery_counts, "Late")
     IN  IF Len(a) > 0 /\ Len(b) > 0
         THEN /\ on_time' = a[1]
              /\ late' = b[1]
              /\ insight_text' =
                   [on_time |-> a[1], late |-> b[1],
                    persentase |-> RoundPct(a[1], a[1] + b[1])]
              /\ pc' = "geo"
         ELSE /\ pc' = "raised"
              /\ UNCHANGED <<on_time, late, insight_text>>
  /\ UNCHANGED <<loaded, selected_states, orders, customer_orders,
                 orders_items_product, full_data, total_customers,
                 total_orders, total_revenue, product_summary, top_products,
                 payment_summary, orders_filtered, delivery_counts,
                 customers_geo, reviews_summary, hist>>

\* lines 156-168: Customer Geography Analysis
CustomerGeography ==
  /\ pc = "geo"
  /\ customers_geo' =
       CustomersGeo(customer_orders, GeolocationSilver(loaded.geolocation))
  /\ pc' = "review"
  /\ UNCHANGED <<loaded, selected_states, orders, customer_orders,
                 orders_items_product, full_data, total_customers,
                 total_orders, total_revenue, product_summary, top_products,
                 payment_summary, orders_filtered, delivery_counts, on_time,
                 late, insight_text, reviews_summary, hist>>

\* lines 185-189: Review Analysis, the last computation of the script
ReviewAnalysis ==
  /\ pc = "review"
  /\ reviews_summary' = ReviewsSummary(full_data)
  /\ pc' = "done"
  /\ UNCHANGED <<loaded, selected_states, orders, customer_orders,
                 orders_items_product, full_data, total_customers,
                 total_orders, total_revenue, product_summary, top_products,
                 payment_summary, orders_filtered, delivery_counts, on_time,
                 late, insight_text, customers_geo, hist>>

Ended == pc \in {"done", "raised"}

\* a filter change: the script runs again from its first line with the new
\* selection (lines 39-45); the options are the states of the customers
Rerun ==
  /\ Ended
  /\ \E sel \in SUBSET ColSet(loaded.customers, "customer_state") :
       selected_states' = sel
  /\ orders' = loaded.orders
  /\ customer_orders' = Unbound
  /\ orders_items_product' = Unbound
  /\ full_data' = Unbound
  /\ total_customers' = NaN
  /\ total_orders' = NaN
  /\ total_revenue' = NaN
  /\ product_summary' = Unbound
  /\ top_products' = Unbound
  /\ payment_summary' = Unbound
  /\ orders_filtered' = Unbound
  /\ delivery_counts' = Unbound
  /\ on_time' = NaN
  /\ late' = NaN
  /\ insight_text' = Unbound
  /\ customers_geo' = Unbound
  /\ reviews_summary' = Unbound
  /\ pc' = "clean"
  /\ hist' = IF hist.tracked
             THEN [hist EXCEPT !.runs = @ \cup
                     {[filter |-> selected_states, outputs |-> Outputs]}]
             ELSE hist
  /\ UNCHANGED loaded

Next ==
  \/ Clean
  \/ Merge
  \/ ApplyFilter
  \/ Overview
  \/ ProductAnalysis
  \/ PaymentAnalysis
  \/ DeliveryStatus
  \/ DeliveryInsights
  \/ CustomerGeography
  \/ ReviewAnalysis
  \/ Rerun

Spec == InitOrders /\ [][Next]_vars
SpecPay == InitPay /\ [][Next]_vars
SpecFilter == InitFilter /\ [][Next]_vars
SpecGeo == InitGeo /\ [][Next]_vars
SpecRank == InitRank /\ [][Next]_vars
SpecRuns == InitRuns /\ [][Next]_vars

\* ------------------------------------------------------------- the claims
Cleaned == pc # "clean"
Filtered == pc \notin {"clean", "merge", "filter"}
Retained == ColSet(customer_orders, "order_id")
HasDate(o) ==
  /\ o.order_delivered_customer_date # NaN
  /\ o.order_estimated_delivery_date # NaN
CountLabel(t, label) ==
  Len(SelectSeq(t, LAMBDA r : r.status_ketepatan = label))

\* C1: every order of the cleaned Order view has order_status = delivered
\* and a delivery timestamp; an order without one gets no label.
C1_CleanedViewHasDeliveryDate ==
  Cleaned =>
    \A i \in DOMAIN orders :
      /\ orders[i].order_status = "delivered"
      /\ orders[i].order_delivered_customer_date # NaN

\* C2: an order of the cleaned view is 'On Time' iff its delivery timestamp
\* is <= its estimated timestamp, 'Late' otherwise; two orders with the same
\* two timestamps carry the same label.
C2_TimelinessInclusive ==
  Cleaned =>
    /\ \A i \in DOMAIN orders :
         HasDate(orders[i]) =>
           /\ orders[i].status_ketepatan \in {"On Time", "Late"}
           /\ orders[i].status_ketepatan = "On Time" <=>
                orders[i].order_delivered_customer_date <=
                  orders[i].order_estimated_delivery_date
    /\ \A i, j \in DOMAIN orders :
         /\ orders[i].order_delivered_customer_date =
              orders[j].order_delivered_customer_date
         /\ orders[i].order_estimated_delivery_date =
              orders[j].order_estimated_delivery_date
         => orders[i].status_ketepatan = orders[j].status_ketepatan

\* C3: the delivery-ratio step never raises: a label absent from the
\* filtered orders counts as 0, the on-time percentage is
\* on_time / (on_time + late) * 100, and 0 when there is no order.
C3_DeliveryRatioTotal ==
  pc \in {"geo", "review", "done", "raised"} =>
    LET n1 == CountLabel(orders_filtered, "On Time")
        n2 == CountLabel(orders_filtered, "Late")
    IN  /\ pc # "raised"
        /\ on_time = n1
        /\ late = n2
        /\ insight_text.persentase =
             IF n1 + n2 = 0 THEN 0 ELSE RoundPct(n1, n1 + n2)

\* C8: when the selected states match no customer-order row, the run ends
\* without raising, with all three totals 0 and every aggregation empty or
\* zero.
C8_EmptySelectionCompletes ==
  (Ended /\ selected_states # {} /\ Len(customer_orders) = 0) =>
    /\ pc = "done"
    /\ total_customers = 0
    /\ total_orders = 0
    /\ total_revenue = 0
    /\ Len(top_products) = 0
    /\ Len(payment_summary) = 0
    /\ on_time = 0
    /\ late = 0
    /\ insight_text.persentase = 0
    /\ Len(customers_geo) = 0
    /\ \A i \in DOMAIN reviews_summary : reviews_summary[i].count = 0

\* the Payment records of a type that belong to retained orders
RetainedPayments(type) ==
  SelectSeq(loaded.payments,
            LAMBDA r : r.payment_type = type /\ r.order_id \in Retained)

\* C6: per payment type, total_orders is the number of distinct retained
\* orders paid with it, and min, max and mean payment are taken over the
\* Payment records of that type of retained orders, each record once.
C6_PaymentStatsPerRecord ==
  pc \in {"delivery", "insight", "geo", "review", "done", "raised"} =>
    /\ {payment_summary[i].payment_type : i \in DOMAIN payment_summary} =
         {t \in Range(PaymentTypes) : Len(RetainedPayments(t)) > 0}
    /\ \A i \in DOMAIN payment_summary :
         LET recs == RetainedPayments(payment_summary[i].payment_type)
         IN  /\ payment_summary[i].total_orders = NUnique(recs, "order_id")
             /\ payment_summary[i].min_payment =
                  Min(ColSet(recs, "payment_value"))
             /\ payment_summary[i].max_payment =
                  Max(ColSet(recs, "payment_value"))
             /\ payment_summary[i].avg_payment = Mean(recs, "payment_value")

\* C7: the review score distribution has exactly one entry per score 1..5,
\* whose count is the number of distinct orders of the filtered full table
\* reviewed with that score (0 for a score that does not occur).
C7_ReviewDistributionComplete ==
  pc = "done" =>
    \A s \in 1..5 :
      /\ Cardinality({i \in DOMAIN reviews_summary :
                        reviews_summary[i].review_score = s}) = 1
      /\ \A i \in DOMAIN reviews_summary :
           reviews_summary[i].review_score = s =>
             reviews_summary[i].count =
               Cardinality({full_data[j].order_id : j \in
                 {j \in DOMAIN full_data : full_data[j].review_score = s}})

\* the joined tables before the state filter, and their rows of retained
\* orders
AllCustomerOrders == CustomerOrders(loaded.customers, orders)
AllOrdersItemsProduct ==
  OrdersItemsProduct(orders, ItemsProduct(loaded.order_items, loaded.products))
AllFullData ==
  FullData(AllCustomerOrders, PaymentsReviews(loaded.payments, loaded.reviews))
OfRetained(t) == SelectSeq(t, LAMBDA r : r.order_id \in Retained)
SelectedDelivered ==
  {o.order_id : o \in
     {o \in Range(loaded.orders) :
        /\ o.order_status = "delivered"
        /\ \E c \in Range(loaded.customers) :
             /\ c.customer_id = o.customer_id
             /\ c.customer_state \in selected_states}}

\* C4: with a non-empty selection, customer_orders holds exactly the
\* delivered orders of customers of a selected state, and
\* orders_items_product, full_data, orders_filtered and customers_geo hold
\* the rows of exactly those orders, none dropped; with an empty selection
\* no table is restricted.
C4_FilterConsistent ==
  /\ (Filtered /\ selected_states # {}) =>
       /\ Retained = SelectedDelivered
       /\ \A i \in DOMAIN customer_orders :
            customer_orders[i].customer_state \in selected_states
       /\ orders_items_product = OfRetained(AllOrdersItemsProduct)
       /\ full_data = OfRetained(AllFullData)
  /\ (pc \in {"insight", "geo", "review", "done", "raised"}
        /\ selected_states # {}) =>
       orders_filtered = OfRetained(orders)
  /\ (pc \in {"review", "done"} /\ selected_states # {}) =>
       ColSet(customers_geo, "order_id") = Retained
  /\ (Filtered /\ selected_states = {}) =>
       /\ customer_orders = AllCustomerOrders
       /\ orders_items_product = AllOrdersItemsProduct
       /\ full_data = AllFullData
  /\ (pc \in {"insight", "geo", "review", "done", "raised"}
        /\ selected_states = {}) =>
       orders_filtered = orders

\* a finished filtered run that kept some orders and excluded others, with
\* item rows and payment rows on both sides
C4_Witness ==
  /\ pc = "done"
  /\ selected_states # {}
  /\ Retained # {}
  /\ Len(orders_filtered) < Len(orders)
  /\ 0 < Len(orders_items_product)
  /\ Len(orders_items_product) < Len(AllOrdersItemsProduct)
  /\ Len(full_data) < Len(AllFullData)

\* C5: customers_geo has exactly one row per order id of customer_orders,
\* also when a prefix has several (city, state) groups, and no order is
\* missing, also when its prefix has no sample.
C5_OneGeoRowPerOrder ==
  pc \in {"review", "done"} =>
    /\ Len(customers_geo) = Cardinality(Retained)
    /\ ColSet(customers_geo, "order_id") = Retained

\* the geo table computed where one order's prefix has two groups and
\* another order's prefix has no sample
C5_Witness ==
  /\ pc \in {"review", "done"}
  /\ Len(CustomersGeoNoDedup(customer_orders,
                             GeolocationSilver(loaded.geolocation)))
       > Len(customers_geo)
  /\ \E i \in DOMAIN customers_geo : customers_geo[i].geolocation_lat = NaN
  /\ \E i \in DOMAIN customers_geo : customers_geo[i].geolocation_lat # NaN

RECURSIVE RatSum(_, _)
RatSum(t, col) ==
  IF Len(t) = 0 THEN Rat(0, 1)
  ELSE LET a == Head(t)[col]
           b == RatSum(Tail(t), col)
       IN  Rat(a.num * b.den + b.num * a.den, a.den * b.den)

\* C9: top_products has at most 10 rows, sorted non-increasing by
\* total_revenue; a row's total_revenue is the sum of price over the rows of
\* its product in the filtered orders_items_product; the displayed revenues
\* sum to at most the sum of price over the whole filtered table.
C9_RevenueRanking ==
  pc \notin {"clean", "merge", "filter", "overview", "product"} =>
    /\ Len(top_products) <= 10
    /\ \A i, j \in DOMAIN top_products :
         i < j => RatLe(top_products[j].total_revenue,
                        top_products[i].total_revenue)
    /\ \A i \in DOMAIN top_products :
         top_products[i].total_revenue =
           Rat(SumCol(SelectSeq(orders_items_product, LAMBDA r :
                 r.product_id = top_products[i].product_id), "price"), 1)
    /\ RatLe(RatSum(top_products, "total_revenue"),
             Rat(SumCol(orders_items_product, "price"), 1))

\* a ranking cut to 10 of 11 products, with a product sold twice at two
\* prices among the displayed rows
C9_Witness ==
  /\ pc = "done"
  /\ Len(product_summary) > 10
  /\ Len(top_products) = 10
  /\ \E i \in DOMAIN top_products :
       /\ top_products[i].quantity_sold > 1
       /\ Cardinality(ColSet(SelectSeq(orders_items_product, LAMBDA r :
            r.product_id = top_products[i].product_id), "price")) > 1
  /\ \E i, j \in DOMAIN top_products :
       top_products[i].total_revenue # top_products[j].total_revenue

\* C10: no step changes the loaded tables, and a run that ends under a
\* filter some earlier run ended under has computed the same outputs as that
\* run, whatever ran in between.
C10_RunsDependOnInputsOnly ==
  [][/\ loaded' = loaded
     /\ Ended' =>
          \A h \in hist'.runs :
            h.filter = selected_states' => h.outputs = Outputs']_vars

\* a run ended under a filter an earlier run used, after runs under other
\* filters, the cleaning having dropped an order
C10_Witness ==
  /\ Ended
  /\ \E h \in hist.runs : h.filter = selected_states
  /\ \E h \in hist.runs : h.filter # selected_states /\ h.outputs # Outputs
  /\ Len(orders) < Len(loaded.orders)
====
